---- MODULE Spec2Model ----
(***************************************************************************)
(* Model of the DB-backed task backend of jancy-template-end:             *)
(* src/config/database.ts (schema and repositories) and the DB-backed     *)
(* handlers of src/routes/todos.ts, src/routes/tags.ts (tag routes and    *)
(* the account and token routes of /api/auth), src/routes/users.ts and    *)
(* src/routes/stats.ts.                                                    *)
(*                                                                         *)
(* Strings on which the code computes (titles, keywords) are sequences of *)
(* one-character strings, so that trim() and LIKE are computed.           *)
(* Timestamps are ticks of the variable clock; NULL is the SQL NULL.      *)
(* resp is the answer to the last request (its operation, HTTP status and *)
(* payload); nOps counts the requests to the task, tag, statistics and    *)
(* account routes.  pending holds the requests that are between two store *)
(* calls when requests overlap.                                            *)
(* Columns that no modelled handler reads back (description, created_at,  *)
(* updated_at, color, name and avatar of users, history.changes) are left *)
(* out.                                                                    *)
(***************************************************************************)
EXTENDS Integers, Sequences, FiniteSets, Bags, TLC

MaxOps == 3
MaxClock == 2
MaxTodos == 2
MaxIds == 2

NULL == 0
NaN == -1

VARIABLES users, todos, tags, todo_tags, todo_history,
          nextUserId, nextTodoId, nextTagId, clock, nOps, resp,
          refresh_tokens, token_blacklist, pending

vars == <<users, todos, tags, todo_tags, todo_history,
          nextUserId, nextTodoId, nextTagId, clock, nOps, resp,
          refresh_tokens, token_blacklist, pending>>

----------------------------------------------------------------------------
(* Request inputs *)

Emails == {"e1"}
RawTitles == {<<>>, <<" ">>, <<" ", "a", " ">>}
Statuses == {"pending", "in-progress", "completed"}
Priorities == {"high", "medium", "low"}
TagNames == {"x", "y"}
TagLists == {<<>>, <<"x">>, <<"x", "y">>, <<"x", "x">>}
ListIds == {ToString(i) : i \in 1..MaxTodos} \cup {"9"}
RawIds == ListIds \cup {"x"}
IdLists == UNION {[1..n -> ListIds] : n \in 0..MaxIds} \cup {<<"x">>, <<"x", "1">>}

(* parseInt(id, 10) on the id strings of RawIds *)
parseInt(s) ==
  IF \E n \in 0..9 : ToString(n) = s
  THEN CHOOSE n \in 0..9 : ToString(n) = s
  ELSE NaN

RECURSIVE trimLeft(_)
trimLeft(s) == IF s # <<>> /\ Head(s) = " " THEN trimLeft(Tail(s)) ELSE s

RECURSIVE trimRight(_)
trimRight(s) ==
  IF s # <<>> /\ s[Len(s)] = " " THEN trimRight(SubSeq(s, 1, Len(s) - 1)) ELSE s

(* Nothing is trimmed *)
trim_Identity(s) == s

(* String.prototype.trim *)
trim(s) == trimRight(trimLeft(s))

(* ids.map(id => parseInt(id, 10)).filter(id => !isNaN(id)) *)
numericIds(ids) == SelectSeq([i \in 1..Len(ids) |-> parseInt(ids[i])], LAMBDA n : n # NaN)

Range(s) == {s[i] : i \in 1..Len(s)}

(* getCurrentUserId: the fixed user id of the DB-backed routes *)
getCurrentUserId == 1

----------------------------------------------------------------------------
(* The Entity Store as a value, so that a handler is a sequence of store  *)
(* calls.                                                                  *)

DB == [users |-> users, todos |-> todos, tags |-> tags, todo_tags |-> todo_tags,
       todo_history |-> todo_history, nextUserId |-> nextUserId,
       nextTodoId |-> nextTodoId, nextTagId |-> nextTagId,
       refresh_tokens |-> refresh_tokens, token_blacklist |-> token_blacklist]

SetDB(d) ==
  /\ users' = d.users
  /\ todos' = d.todos
  /\ tags' = d.tags
  /\ todo_tags' = d.todo_tags
  /\ todo_history' = d.todo_history
  /\ nextUserId' = d.nextUserId
  /\ nextTodoId' = d.nextTodoId
  /\ nextTagId' = d.nextTagId
  /\ refresh_tokens' = d.refresh_tokens
  /\ token_blacklist' = d.token_blacklist

UserIds(d) == {u.id : u \in d.users}
TodoIds(d) == {t.id : t \in d.todos}
TagIds(d) == {g.id : g \in d.tags}

(* TodoRepository.findById: no owner in the WHERE clause *)
TodoFindById(d, id) == {t \in d.todos : t.id = id}

TagFindById(d, id) == {g \in d.tags : g.id = id}

TagFindByNameAndUserId(d, name, userId) ==
  {g \in d.tags : g.name = name /\ g.user_id = userId}

SetMax(S) == CHOOSE m \in S : \A n \in S : n <= m

(* The maximum itself, not its successor *)
NextOrderIndex_NoIncrement(d, userId) ==
  LET S == {t.order_index : t \in {u \in d.todos : u.user_id = userId}}
  IN IF S = {} THEN 0 ELSE SetMax(S)

(* db('todos').where('user_id', userId).max('order_index'); (max || 0) + 1 *)
NextOrderIndex(d, userId) ==
  LET S == {t.order_index : t \in {u \in d.todos : u.user_id = userId}}
  IN (IF S = {} THEN 0 ELSE SetMax(S)) + 1

(* The requests in flight: a request that has passed an await and not yet *)
(* answered holds its local variables here.                               *)
Reqs == {1, 2}
Idle == [pc |-> "idle"]

Init ==
  /\ users = {}
  /\ todos = {}
  /\ tags = {}
  /\ todo_tags = {}
  /\ todo_history = EmptyBag
  /\ nextUserId = 1
  /\ nextTodoId = 1
  /\ nextTagId = 1
  /\ clock = 1
  /\ nOps = 0
  /\ resp = [op |-> "init", status |-> 0]
  /\ refresh_tokens = {}
  /\ token_blacklist = {}
  /\ pending = [r \in Reqs |-> Idle]

(* Time passes between requests *)
Tick ==
  /\ clock < MaxClock
  /\ clock' = clock + 1
  /\ UNCHANGED <<users, todos, tags, todo_tags, todo_history,
                 nextUserId, nextTodoId, nextTagId, nOps, resp,
                 refresh_tokens, token_blacklist, pending>>

(* POST /api/users *)
CreateUserResult(d, email) ==
  IF \E u \in d.users : u.email = email
  THEN [db |-> d, resp |-> [op |-> "createUser", status |-> 400]]
  ELSE [db |-> [d EXCEPT !.users = @ \cup {[id |-> d.nextUserId, email |-> email,
                                             password |-> "defaultPassword123"]},
                         !.nextUserId = @ + 1],
        resp |-> [op |-> "createUser", status |-> 201]]

CreateUser ==
  /\ \E email \in Emails :
       LET r == CreateUserResult(DB, email)
       IN SetDB(r.db) /\ resp' = r.resp
  /\ UNCHANGED <<clock, nOps, pending>>

(* POST /api/users when a second person registers as well *)
CreateUsers ==
  /\ \E email \in Emails \cup {"e2"} :
       LET r == CreateUserResult(DB, email)
       IN SetDB(r.db) /\ resp' = r.resp
  /\ UNCHANGED <<clock, nOps, pending>>

----------------------------------------------------------------------------
(* Repositories (src/config/database.ts).  A store call returns ok = FALSE *)
(* when the statement raises (a FOREIGN KEY or UNIQUE constraint fails;   *)
(* foreign_keys = ON is set on every connection).                          *)

Undefined == -2

(* Date.prototype.toISOString behind ?. : null and undefined give undefined *)
toISOStringOpt(v) == IF v = NULL \/ v = Undefined THEN Undefined ELSE v

(* knex insert() and update(): a key whose value is undefined is left out *)
SetColumn(old, v) == IF v = Undefined THEN old ELSE v

(* The insert of TodoRepository.create; without a dueDate the column      *)
(* keeps its default, NULL                                                 *)
TodoInsert(d, title, userId, priority, dueDate, orderIndex) ==
  IF userId \notin UserIds(d)
  THEN [ok |-> FALSE, db |-> d, id |-> NULL]
  ELSE [ok |-> TRUE, id |-> d.nextTodoId,
        db |-> [d EXCEPT
                  !.todos = @ \cup {[id |-> d.nextTodoId, title |-> title,
                                     status |-> "pending", priority |-> priority,
                                     completed_at |-> NULL,
                                     due_date |-> SetColumn(NULL, toISOStringOpt(dueDate)),
                                     order_index |-> orderIndex,
                                     user_id |-> userId]},
                  !.nextTodoId = @ + 1]]

(* TodoRepository.create: the read of the maximum and the insert, with no *)
(* other statement in between                                              *)
TodoCreate(d, title, userId, priority, dueDate) ==
  TodoInsert(d, title, userId, priority, dueDate, NextOrderIndex(d, userId))

(* TodoRepository.update; updates.keys are the keys that are !== undefined *)
TodoUpdate(d, id, updates) ==
  LET completed_at == IF "completedAt" \in updates.keys
                      THEN toISOStringOpt(updates.completedAt) ELSE Undefined
      upd(t) == [t EXCEPT
                   !.title = IF "title" \in updates.keys THEN updates.title ELSE @,
                   !.status = IF "status" \in updates.keys THEN updates.status ELSE @,
                   !.priority = IF "priority" \in updates.keys THEN updates.priority ELSE @,
                   !.completed_at = SetColumn(@, completed_at),
                   !.due_date = IF "dueDate" \in updates.keys THEN updates.dueDate ELSE @,
                   !.order_index = IF "orderIndex" \in updates.keys
                                   THEN updates.orderIndex ELSE @]
  IN [d EXCEPT !.todos = {IF t.id = id THEN upd(t) ELSE t : t \in @}]

(* The name is unique in the whole table, not per user *)
TagCreate_GlobalUnique(d, name, userId) ==
  IF userId \notin UserIds(d) \/ \E g \in d.tags : g.name = name
  THEN [ok |-> FALSE, db |-> d, id |-> NULL]
  ELSE [ok |-> TRUE, id |-> d.nextTagId,
        db |-> [d EXCEPT !.tags = @ \cup {[id |-> d.nextTagId, name |-> name,
                                           user_id |-> userId]},
                         !.nextTagId = @ + 1]]

(* TagRepository.create (the color column is left out of the rows);       *)
(* UNIQUE(name, user_id) and the foreign key on user_id can fail          *)
TagCreate(d, name, userId) ==
  IF userId \notin UserIds(d)
     \/ TagFindByNameAndUserId(d, name, userId) # {}
  THEN [ok |-> FALSE, db |-> d, id |-> NULL]
  ELSE [ok |-> TRUE, id |-> d.nextTagId,
        db |-> [d EXCEPT !.tags = @ \cup {[id |-> d.nextTagId, name |-> name,
                                           user_id |-> userId]},
                         !.nextTagId = @ + 1]]

(* TodoRepository.getTags: tags joined to todo_tags on the todo *)
TodoGetTags(d, todoId) ==
  {g \in d.tags : [todo_id |-> todoId, tag_id |-> g.id] \in d.todo_tags}

(* TodoRepository.setTags: delete the links and insert the new ones in    *)
(* one transaction; a failing insert rolls the delete back.               *)
TodoSetTags(d, todoId, tagIds) ==
  LET distinct == \A i, j \in 1..Len(tagIds) : tagIds[i] = tagIds[j] => i = j
      fkOk == todoId \in TodoIds(d) /\ Range(tagIds) \subseteq TagIds(d)
      kept == {l \in d.todo_tags : l.todo_id # todoId}
  IN IF tagIds = <<>>
     THEN [ok |-> TRUE, db |-> [d EXCEPT !.todo_tags = kept]]
     ELSE IF distinct /\ fkOk
     THEN [ok |-> TRUE,
           db |-> [d EXCEPT !.todo_tags =
                     kept \cup {[todo_id |-> todoId, tag_id |-> g] : g \in Range(tagIds)}]]
     ELSE [ok |-> FALSE, db |-> d]

(* TodoHistoryRepository.add *)
HistoryAdd(d, todoId, actionType, batch) ==
  IF todoId \notin TodoIds(d)
  THEN [ok |-> FALSE, db |-> d]
  ELSE [ok |-> TRUE,
        db |-> [d EXCEPT !.todo_history =
                  @ (+) SetToBag({[todo_id |-> todoId, action_type |-> actionType,
                                   batch |-> batch]})]]

HistoryWithout(h, ids) ==
  LET keep == {r \in DOMAIN h : r.todo_id \notin ids}
  IN [r \in keep |-> h[r]]

(* The row is deleted, its links and its history are not *)
TodoDelete_RowOnly(d, id) ==
  [d EXCEPT !.todos = {t \in @ : t.id # id}]

(* TodoRepository.delete *)
TodoDelete(d, id) ==
  [d EXCEPT !.todo_tags = {l \in @ : l.todo_id # id},
            !.todo_history = HistoryWithout(@, {id}),
            !.todos = {t \in @ : t.id # id}]

(* The links are deleted by todo_id instead of tag_id *)
TagDelete_ByTodoId(d, id) ==
  [d EXCEPT !.todo_tags = {l \in @ : l.todo_id # id},
            !.tags = {g \in @ : g.id # id}]

(* TagRepository.delete *)
TagDelete(d, id) ==
  [d EXCEPT !.todo_tags = {l \in @ : l.tag_id # id},
            !.tags = {g \in @ : g.id # id}]

(* getOrCreateTagIds (src/routes/todos.ts) *)
RECURSIVE getOrCreateTagIds(_, _, _)
getOrCreateTagIds(d, tagNames, userId) ==
  IF tagNames = <<>>
  THEN [ok |-> TRUE, db |-> d, ids |-> <<>>]
  ELSE LET found == TagFindByNameAndUserId(d, Head(tagNames), userId)
           made == TagCreate(d, Head(tagNames), userId)
           here == IF found # {}
                   THEN [ok |-> TRUE, db |-> d, id |-> (CHOOSE g \in found : TRUE).id]
                   ELSE made
       IN IF ~here.ok
          THEN [ok |-> FALSE, db |-> here.db, ids |-> <<>>]
          ELSE LET rest == getOrCreateTagIds(here.db, Tail(tagNames), userId)
               IN [ok |-> rest.ok, db |-> rest.db, ids |-> <<here.id>> \o rest.ids]

(* convertDatabaseTodoToTodo: the API form of a row, tags read from the store *)
convertDatabaseTodoToTodo(d, t) ==
  [id |-> t.id, title |-> t.title, status |-> t.status, priority |-> t.priority,
   tags |-> {g.name : g \in TodoGetTags(d, t.id)},
   completedAt |-> IF t.completed_at # NULL THEN t.completed_at ELSE NULL,
   order |-> t.order_index]

----------------------------------------------------------------------------
(* Handlers of src/routes/todos.ts (DB-backed) *)

(* res.status(400): store tells whether the handler has called the store *)
(* before it answers                                                       *)
Invalid(op, store) == [op |-> op, status |-> 400, store |-> store]

Priority(body) == IF body.priority = "undefined" THEN "medium" ELSE body.priority

CreateBodies ==
  [hasTitle : BOOLEAN, title : RawTitles, priority : {"undefined", "high"},
   tags : TagLists, dueDate : {NULL}]

(* POST /api/todos from the return of TodoRepository.create (c) on: tags, *)
(* history, answer                                                         *)
CreateTodoRest(d, body, c) ==
  LET userId == getCurrentUserId
      err(db, id) == [db |-> db, resp |-> [op |-> "create", status |-> 500]]
  IN IF ~c.ok THEN err(d, NULL)
     ELSE LET g == getOrCreateTagIds(c.db, body.tags, userId)
              s == TodoSetTags(g.db, c.id, g.ids)
              d2 == IF body.tags = <<>> THEN c.db ELSE s.db
              h == HistoryAdd(d2, c.id, "create", FALSE)
          IN IF body.tags # <<>> /\ ~g.ok THEN err(g.db, c.id)
             ELSE IF body.tags # <<>> /\ ~s.ok THEN err(s.db, c.id)
             ELSE IF ~h.ok THEN err(h.db, c.id)
             ELSE [db |-> h.db,
                   resp |-> [op |-> "create", status |-> 201, id |-> c.id,
                             tags |-> body.tags]]

DueDate(body) == IF body.dueDate # NULL THEN body.dueDate ELSE Undefined

(* POST /api/todos *)
CreateTodoResult(d, body) ==
  LET userId == getCurrentUserId
  IN IF ~body.hasTitle \/ trim(body.title) = <<>>
     THEN [db |-> d, resp |-> Invalid("create", FALSE)]
     ELSE CreateTodoRest(d, body, TodoCreate(d, trim(body.title), userId, Priority(body),
                                             DueDate(body)))

CreateStep(body) ==
  /\ nOps < MaxOps
  /\ nextTodoId <= MaxTodos
  /\ LET r == CreateTodoResult(DB, body)
     IN SetDB(r.db) /\ resp' = r.resp
  /\ nOps' = nOps + 1
  /\ UNCHANGED <<clock, pending>>

CreateTodo ==
  \E body \in CreateBodies :
    /\ ~body.hasTitle => body.title = <<>>
    /\ CreateStep(body)

(* GET /api/todos/:id *)
GetTodoResult(d, rawId) ==
  LET todoId == parseInt(rawId)
      found == TodoFindById(d, todoId)
  IN IF todoId = NaN THEN Invalid("get", FALSE)
     ELSE IF found = {} THEN [op |-> "get", status |-> 404]
     ELSE [op |-> "get", status |-> 200,
           data |-> convertDatabaseTodoToTodo(d, CHOOSE t \in found : TRUE)]

GetTodo ==
  /\ nOps < MaxOps
  /\ \E rawId \in RawIds : resp' = GetTodoResult(DB, rawId)
  /\ nOps' = nOps + 1
  /\ UNCHANGED <<users, todos, tags, todo_tags, todo_history,
                 nextUserId, nextTodoId, nextTagId, clock,
                 refresh_tokens, token_blacklist, pending>>

(* Sparse patches of PUT /api/todos/:id: keys are the fields present in   *)
(* the body, absent fields carry a fixed filler value.                     *)
Patch(keys, title, status, priority, tagList, order) ==
  [keys |-> keys, title |-> title, status |-> status, priority |-> priority,
   tags |-> tagList, order |-> order, dueDate |-> NULL]

UpdatePatches ==
  {Patch({}, <<>>, "pending", "medium", <<>>, 1)}
    \cup {Patch({"title"}, t, "pending", "medium", <<>>, 1) : t \in {<<" ">>, <<"b">>}}
    \cup {Patch({"status"}, <<>>, s, "medium", <<>>, 1) : s \in Statuses}
    \cup {Patch({"priority"}, <<>>, "pending", "low", <<>>, 1)}
    \cup {Patch({"tags"}, <<>>, "pending", "medium", g, 1) : g \in TagLists}

(* The updates object built by PUT /api/todos/:id *)
BuildUpdates(existing, patch, now) ==
  LET setsCompletedAt ==
        "status" \in patch.keys
          /\ (patch.status = "completed" \/ existing.completed_at # NULL)
  IN [keys |-> (patch.keys \cap {"title", "status", "priority"})
                 \cup (IF "order" \in patch.keys THEN {"orderIndex"} ELSE {})
                 \cup (IF setsCompletedAt THEN {"completedAt"} ELSE {})
                 \cup (IF "dueDate" \in patch.keys /\ patch.dueDate # NULL
                       THEN {"dueDate"} ELSE {}),
      title |-> trim(patch.title),
      status |-> patch.status,
      priority |-> patch.priority,
      completedAt |-> IF patch.status = "completed" THEN now ELSE NULL,
      dueDate |-> patch.dueDate,
      orderIndex |-> patch.order]

(* PUT /api/todos/:id *)
UpdateTodoResult(d, rawId, patch, now) ==
  LET userId == getCurrentUserId
      todoId == parseInt(rawId)
      found == TodoFindById(d, todoId)
      out(db, status) == [db |-> db, resp |-> [op |-> "update", status |-> status]]
  IN IF todoId = NaN THEN [db |-> d, resp |-> Invalid("update", FALSE)]
     ELSE IF found = {} THEN out(d, 404)
     ELSE IF "title" \in patch.keys /\ trim(patch.title) = <<>>
     THEN [db |-> d, resp |-> Invalid("update", TRUE)]
     ELSE LET existingTodo == CHOOSE t \in found : TRUE
              d1 == TodoUpdate(d, todoId, BuildUpdates(existingTodo, patch, now))
              g == getOrCreateTagIds(d1, patch.tags, userId)
              s == TodoSetTags(g.db, todoId, g.ids)
              d2 == IF "tags" \in patch.keys THEN s.db ELSE d1
              h == HistoryAdd(d2, todoId, "update_status", FALSE)
          IN IF "tags" \in patch.keys /\ ~g.ok THEN out(g.db, 500)
             ELSE IF "tags" \in patch.keys /\ ~s.ok THEN out(s.db, 500)
             ELSE IF patch.keys = {} THEN out(d2, 200)
             ELSE IF ~h.ok THEN out(h.db, 500)
             ELSE out(h.db, 200)

UpdateStep(rawId, patch) ==
  /\ nOps < MaxOps
  /\ LET r == UpdateTodoResult(DB, rawId, patch, clock)
     IN SetDB(r.db) /\ resp' = r.resp
  /\ nOps' = nOps + 1
  /\ UNCHANGED <<clock, pending>>

UpdateTodo == \E rawId \in RawIds, patch \in UpdatePatches : UpdateStep(rawId, patch)

(* DELETE /api/todos/:id *)
DeleteTodoResult(d, rawId) ==
  LET todoId == parseInt(rawId)
      out(db, status) == [db |-> db, resp |-> [op |-> "delete", status |-> status]]
  IN IF todoId = NaN THEN [db |-> d, resp |-> Invalid("delete", FALSE)]
     ELSE IF TodoFindById(d, todoId) = {} THEN out(d, 404)
     ELSE out(TodoDelete(d, todoId), 200)

DeleteTodo ==
  /\ nOps < MaxOps
  /\ \E rawId \in RawIds :
       LET r == DeleteTodoResult(DB, rawId)
       IN SetDB(r.db) /\ resp' = r.resp
  /\ nOps' = nOps + 1
  /\ UNCHANGED <<clock, pending>>

(* DELETE /api/tags/:id (src/routes/tags.ts, DB-backed) *)
DeleteTagResult(d, rawId) ==
  LET tagId == parseInt(rawId)
      found == TagFindById(d, tagId)
      out(db, status) == [db |-> db, resp |-> [op |-> "deleteTag", status |-> status]]
  IN IF tagId = NaN THEN [db |-> d, resp |-> Invalid("deleteTag", FALSE)]
     ELSE IF found = {} THEN out(d, 404)
     ELSE [db |-> TagDelete(d, tagId),
           resp |-> [op |-> "deleteTag", status |-> 200, id |-> tagId]]

DeleteTagStep(rawId) ==
  /\ nOps < MaxOps
  /\ LET r == DeleteTagResult(DB, rawId)
     IN SetDB(r.db) /\ resp' = r.resp
  /\ nOps' = nOps + 1
  /\ UNCHANGED <<clock, pending>>

DeleteTag == \E rawId \in RawIds : DeleteTagStep(rawId)

(* Tag names and colors as they arrive in the bodies of the tag routes *)
RawTagNames == {" ", "x", " y"}
RawColors == {"", "c"}

(* String.prototype.trim on the names and colors of the tag requests *)
trimName(s) == CASE s = " " -> "" [] s = " y" -> "y" [] OTHER -> s

(* TagRepository.update: UNIQUE(name, user_id) can fail *)
TagUpdate(d, id, keys, name) ==
  LET clash == \E g \in TagFindById(d, id), other \in d.tags :
                  other.id # id /\ other.name = name /\ other.user_id = g.user_id
  IN IF "name" \notin keys THEN [ok |-> TRUE, db |-> d]
     ELSE IF clash THEN [ok |-> FALSE, db |-> d]
     ELSE [ok |-> TRUE,
           db |-> [d EXCEPT !.tags = {IF g.id = id THEN [g EXCEPT !.name = name] ELSE g
                                        : g \in @}]]

CreateTagBodies == [name : RawTagNames, color : RawColors]

(* POST /api/tags *)
CreateTagResult(d, body) ==
  LET userId == getCurrentUserId
      out(db, status) == [db |-> db, resp |-> [op |-> "createTag", status |-> status]]
  IN IF trimName(body.name) = "" THEN [db |-> d, resp |-> Invalid("createTag", FALSE)]
     ELSE IF trimName(body.color) = "" THEN [db |-> d, resp |-> Invalid("createTag", FALSE)]
     ELSE IF TagFindByNameAndUserId(d, trimName(body.name), userId) # {}
     THEN [db |-> d, resp |-> Invalid("createTag", TRUE)]
     ELSE LET c == TagCreate(d, trimName(body.name), userId)
          IN IF c.ok THEN out(c.db, 201) ELSE out(c.db, 500)

CreateTag ==
  /\ nOps < MaxOps
  /\ \E body \in CreateTagBodies :
       LET r == CreateTagResult(DB, body)
       IN SetDB(r.db) /\ resp' = r.resp
  /\ nOps' = nOps + 1
  /\ UNCHANGED <<clock, pending>>

(* Bodies of PUT /api/tags/:id: keys are the fields present *)
UpdateTagPatches ==
  {[keys |-> {}, name |-> "x", color |-> "c"]}
    \cup {[keys |-> {"name"}, name |-> n, color |-> "c"] : n \in RawTagNames}
    \cup {[keys |-> {"color"}, name |-> "x", color |-> c] : c \in RawColors}

(* PUT /api/tags/:id *)
UpdateTagResult(d, rawId, patch) ==
  LET userId == getCurrentUserId
      tagId == parseInt(rawId)
      name == trimName(patch.name)
      out(db, status) == [db |-> db, resp |-> [op |-> "updateTag", status |-> status]]
  IN IF tagId = NaN THEN [db |-> d, resp |-> Invalid("updateTag", FALSE)]
     ELSE IF TagFindById(d, tagId) = {} THEN out(d, 404)
     ELSE IF "name" \in patch.keys /\ name = ""
     THEN [db |-> d, resp |-> Invalid("updateTag", TRUE)]
     ELSE IF "name" \in patch.keys
             /\ \E g \in TagFindByNameAndUserId(d, name, userId) : g.id # tagId
     THEN [db |-> d, resp |-> Invalid("updateTag", TRUE)]
     ELSE IF "color" \in patch.keys /\ trimName(patch.color) = ""
     THEN [db |-> d, resp |-> Invalid("updateTag", TRUE)]
     ELSE LET u == TagUpdate(d, tagId, patch.keys, name)
          IN IF u.ok THEN out(u.db, 200) ELSE out(u.db, 500)

UpdateTag ==
  /\ nOps < MaxOps
  /\ \E rawId \in RawIds, patch \in UpdateTagPatches :
       LET r == UpdateTagResult(DB, rawId, patch)
       IN SetDB(r.db) /\ resp' = r.resp
  /\ nOps' = nOps + 1
  /\ UNCHANGED <<clock, pending>>

(* TodoRepository.reorder: one UPDATE per position inside a transaction.  *)
(* failAt = 0: every statement succeeds and the transaction commits;      *)
(* failAt = k > 0: the store raises on the k-th statement (StoreError),   *)
(* the catch block rolls back and rethrows.                                *)
RECURSIVE ApplyOrder(_, _, _)
ApplyOrder(rows, todoIds, i) ==
  IF i > Len(todoIds) THEN rows
  ELSE ApplyOrder({IF t.id = todoIds[i] THEN [t EXCEPT !.order_index = i] ELSE t
                     : t \in rows},
                  todoIds, i + 1)

(* The updates are made but the transaction is rolled back *)
TodoReorder_NoCommit(d, todoIds, failAt) ==
  IF failAt > 0 THEN [ok |-> FALSE, db |-> d] ELSE [ok |-> TRUE, db |-> d]

TodoReorder(d, todoIds, failAt) ==
  IF failAt > 0
  THEN [ok |-> FALSE, db |-> d]
  ELSE [ok |-> TRUE, db |-> [d EXCEPT !.todos = ApplyOrder(@, todoIds, 1)]]

(* for (...) await TodoHistoryRepository.add(...): stops at the first add *)
(* that raises; the adds before it stay.                                   *)
RECURSIVE HistoryAddEach(_, _, _, _)
HistoryAddEach(d, todoIds, actionType, batch) ==
  IF todoIds = <<>> THEN [ok |-> TRUE, db |-> d]
  ELSE LET h == HistoryAdd(d, Head(todoIds), actionType, batch)
       IN IF ~h.ok THEN h
          ELSE HistoryAddEach(h.db, Tail(todoIds), actionType, batch)

ReorderBodies == [isArray : BOOLEAN, todoIds : IdLists]

(* POST /api/todos/reorder *)
ReorderResult(d, body, failAt) ==
  LET numericTodoIds == numericIds(body.todoIds)
      out(db, status) == [db |-> db, resp |-> [op |-> "reorder", status |-> status]]
  IN IF ~body.isArray THEN [db |-> d, resp |-> Invalid("reorder", FALSE)]
     ELSE IF numericTodoIds = <<>> THEN [db |-> d, resp |-> Invalid("reorder", FALSE)]
     ELSE LET r == TodoReorder(d, numericTodoIds, failAt)
              h == HistoryAddEach(r.db, numericTodoIds, "update_order", FALSE)
          IN IF ~r.ok THEN out(r.db, 500)
             ELSE IF ~h.ok THEN out(h.db, 500)
             ELSE [db |-> h.db,
                   resp |-> [op |-> "reorder", status |-> 200, ids |-> numericTodoIds]]

ReorderStep(body, failAt) ==
  /\ nOps < MaxOps
  /\ LET r == ReorderResult(DB, body, failAt)
     IN SetDB(r.db) /\ resp' = r.resp
  /\ nOps' = nOps + 1
  /\ UNCHANGED <<clock, pending>>

ReorderTodos ==
  \E body \in ReorderBodies :
    /\ ~body.isArray => body.todoIds = <<>>
    /\ \E failAt \in {0, Len(numericIds(body.todoIds))} : ReorderStep(body, failAt)

(* affected counts the ids asked for, not the rows deleted *)
TodoBatchDelete_CountsIds(d, ids) ==
  [affected |-> Len(ids),
   db |-> [d EXCEPT !.todo_tags = {l \in @ : l.todo_id \notin Range(ids)},
                    !.todo_history = HistoryWithout(@, Range(ids)),
                    !.todos = {t \in @ : t.id \notin Range(ids)}]]

(* TodoRepository.batchDelete *)
TodoBatchDelete(d, ids) ==
  [affected |-> Cardinality(TodoIds(d) \cap Range(ids)),
   db |-> [d EXCEPT !.todo_tags = {l \in @ : l.todo_id \notin Range(ids)},
                    !.todo_history = HistoryWithout(@, Range(ids)),
                    !.todos = {t \in @ : t.id \notin Range(ids)}]]

(* TodoRepository.batchUpdateStatus: completed_at is written only when    *)
(* the new status is 'completed'.                                          *)
TodoBatchUpdateStatus(d, ids, status, now) ==
  LET upd(t) == [t EXCEPT !.status = status,
                          !.completed_at = IF status = "completed" THEN now ELSE @]
  IN [affected |-> Cardinality(TodoIds(d) \cap Range(ids)),
      db |-> [d EXCEPT !.todos = {IF t.id \in Range(ids) THEN upd(t) ELSE t : t \in @}]]

(* The per-task branch of the batch update: update, then history, for     *)
(* every id of the list that findById still returns.                       *)
RECURSIVE BatchUpdateEach(_, _, _, _)
BatchUpdateEach(d, todoIds, updates, affected) ==
  IF todoIds = <<>> THEN [ok |-> TRUE, db |-> d, affected |-> affected]
  ELSE LET todoId == Head(todoIds)
           d1 == TodoUpdate(d, todoId, updates)
           h == HistoryAdd(d1, todoId, "update_status", TRUE)
       IN IF TodoFindById(d1, todoId) = {}
          THEN BatchUpdateEach(d1, Tail(todoIds), updates, affected)
          ELSE IF ~h.ok THEN [ok |-> FALSE, db |-> h.db, affected |-> affected]
          ELSE BatchUpdateEach(h.db, Tail(todoIds), updates, affected + 1)

(* data of a batch request: kind is "none" (no data), "status" or         *)
(* "priority" (the field the patch carries) or "statusAndPriority" (the   *)
(* patch carries both).                                                    *)
BatchData ==
  {[kind |-> "none", status |-> "pending", priority |-> "medium"]}
    \cup {[kind |-> "status", status |-> s, priority |-> "medium"]
            : s \in {"pending", "completed"}}
    \cup {[kind |-> "priority", status |-> "pending", priority |-> "low"]}
    \cup {[kind |-> "statusAndPriority", status |-> "completed", priority |-> "low"]}

BatchBodies ==
  [action : {"undefined", "delete", "update", "archive"}, isArray : BOOLEAN,
   ids : IdLists, data : BatchData]

(* POST /api/todos/batch *)
BatchResult(d, body, now) ==
  LET todoIds == numericIds(body.ids)
      out(db, status, affected) ==
        [db |-> db,
         resp |-> [op |-> "batch", status |-> status, affected |-> affected,
                   action |-> body.action, ids |-> todoIds,
                   store |-> status # 400]]
  IN IF body.action = "undefined" \/ ~body.isArray \/ body.ids = <<>> THEN out(d, 400, 0)
     ELSE IF todoIds = <<>> THEN out(d, 400, 0)
     ELSE IF body.action = "delete"
     THEN LET r == TodoBatchDelete(d, todoIds) IN out(r.db, 200, r.affected)
     ELSE IF body.action = "update"
     THEN IF body.data.kind = "none" THEN out(d, 400, 0)
          ELSE IF body.data.kind \in {"status", "statusAndPriority"}
          THEN LET r == TodoBatchUpdateStatus(d, todoIds, body.data.status, now)
                   h == HistoryAddEach(r.db, todoIds, "update_status", TRUE)
               IN IF ~h.ok THEN out(h.db, 500, 0) ELSE out(h.db, 200, r.affected)
          ELSE LET updates == [keys |-> {"priority"}, title |-> <<>>,
                               status |-> "pending", priority |-> body.data.priority,
                               completedAt |-> NULL, orderIndex |-> 0]
                   r == BatchUpdateEach(d, todoIds, updates, 0)
               IN IF ~r.ok THEN out(r.db, 500, 0) ELSE out(r.db, 200, r.affected)
     ELSE out(d, 400, 0)

BatchStep(body) ==
  /\ nOps < MaxOps
  /\ LET r == BatchResult(DB, body, clock)
     IN SetDB(r.db) /\ resp' = r.resp
  /\ nOps' = nOps + 1
  /\ UNCHANGED <<clock, pending>>

BatchTodos ==
  \E body \in BatchBodies :
    /\ ~body.isArray => body.ids = <<>>
    /\ body.action # "update" => body.data.kind = "none"
    /\ BatchStep(body)

----------------------------------------------------------------------------
(* Task list query: buildTodoQuery and GET /api/todos                      *)

(* Columns of the tables a list query can name (initDatabase) *)
Columns ==
  [todos |-> {"id", "title", "description", "status", "priority", "due_date",
              "completed_at", "created_at", "updated_at", "order_index", "user_id"},
   todo_tags |-> {"id", "todo_id", "tag_id"},
   tags |-> {"id", "name", "color", "created_at", "user_id"}]

(* SQLite resolves an unqualified column against every table of FROM and  *)
(* raises "ambiguous column name" when more than one table has it.        *)
Ambiguous(col, tables) == Cardinality({t \in tables : col \in Columns[t]}) > 1

(* x LIKE '%k%' *)
Like(x, k) ==
  \E i \in 0..(Len(x) - Len(k)) : SubSeq(x, i + 1, i + Len(k)) = k

SortFields == {"priority", "completedAt", "order"}

SortSpecs == {<<"order", "asc">>, <<"priority", "desc">>, <<"completedAt", "asc">>}
Pages == {<<1, 10>>, <<2, 1>>}

Queries ==
  {q \in [status : {{}, {"completed"}},
          priority : {{}, {"medium"}},
          tags : {<<>>, <<"x", "y">>},
          keyword : {<<>>, <<"b">>},
          sortField : SortFields,
          sortOrder : {"asc", "desc"},
          page : {1, 2},
          size : {1, 10}] :
     <<q.sortField, q.sortOrder>> \in SortSpecs /\ <<q.page, q.size>> \in Pages}

(* The unqualified columns buildTodoQuery puts into WHERE and ORDER BY *)
QueryColumns(q) ==
  {"user_id"}
    \cup (IF q.status # {} THEN {"status"} ELSE {})
    \cup (IF q.priority # {} THEN {"priority"} ELSE {})
    \cup (IF q.keyword # <<>> THEN {"title", "description"} ELSE {})
    \cup (CASE q.sortField = "priority" -> {"priority"}
            [] q.sortField = "completedAt" -> {"completed_at"}
            [] q.sortField = "dueDate" -> {"due_date"}
            [] OTHER -> {"order_index"})

(* The tables of FROM: the tag filter joins todo_tags and tags *)
QueryTables(q) ==
  IF q.tags # <<>> THEN {"todos", "todo_tags", "tags"} ELSE {"todos"}

(* WHERE of buildTodoQuery on a todos row *)
MatchesFilters(t, userId, q) ==
  /\ t.user_id = userId
  /\ q.status # {} => t.status \in q.status
  /\ q.priority # {} => t.priority \in q.priority
  /\ q.keyword # <<>> => Like(t.title, q.keyword)

(* ... JOIN todo_tags JOIN tags WHERE tags.name IN (...) GROUP BY todos.id *)
MatchesTags(d, t, q) ==
  q.tags # <<>> => \E g \in TodoGetTags(d, t.id) : g.name \in Range(q.tags)

PriorityRank(p) == CASE p = "high" -> 3 [] p = "medium" -> 2 [] OTHER -> 1

(* ORDER BY key; NULL (0) sorts lowest *)
SortKey(t, q) ==
  CASE q.sortField = "priority" -> PriorityRank(t.priority)
    [] q.sortField = "completedAt" -> t.completed_at
    [] q.sortField = "dueDate" -> t.due_date
    [] OTHER -> t.order_index

(* Every row order ORDER BY allows: rows of equal key come in any order *)
OrderedRows(rows, q) ==
  LET n == Cardinality(rows)
  IN {s \in [1..n -> rows] :
        /\ \A i, j \in 1..n : s[i] = s[j] => i = j
        /\ \A i, j \in 1..n :
             i < j => IF q.sortOrder = "desc"
                      THEN SortKey(s[i], q) >= SortKey(s[j], q)
                      ELSE SortKey(s[i], q) <= SortKey(s[j], q)}

Min(a, b) == IF a < b THEN a ELSE b

(* limit(pageSize).offset((pageNum - 1) * pageSize) *)
PageOf(s, page, size) ==
  SubSeq(s, (page - 1) * size + 1, Min(Len(s), page * size))

(* GET /api/todos: the responses the handler can give to query q *)
ListResponses(d, q) ==
  LET userId == getCurrentUserId
      rows == {t \in d.todos : MatchesFilters(t, userId, q) /\ MatchesTags(d, t, q)}
  IN IF \E col \in QueryColumns(q) : Ambiguous(col, QueryTables(q))
     THEN {[op |-> "list", status |-> 500]}
     ELSE {[op |-> "list", status |-> 200,
            data |-> PageOf([i \in 1..Len(s) |-> s[i].id], q.page, q.size),
            total |-> Cardinality(rows)] : s \in OrderedRows(rows, q)}

(* GET /api/todos sorted by completedAt or dueDate, without filters *)
NullKeyQueries ==
  [status : {{}}, priority : {{}}, tags : {<<>>}, keyword : {<<>>},
   sortField : {"completedAt", "dueDate"}, sortOrder : {"asc", "desc"},
   page : {1}, size : {10}]

ListByDate ==
  /\ nOps < MaxOps
  /\ \E q \in NullKeyQueries : \E r \in ListResponses(DB, q) : resp' = r
  /\ nOps' = nOps + 1
  /\ UNCHANGED <<users, todos, tags, todo_tags, todo_history,
                 nextUserId, nextTodoId, nextTagId, clock,
                 refresh_tokens, token_blacklist, pending>>

(* POST /api/todos with a dueDate *)
CreateTodoDue ==
  \E body \in [hasTitle : {TRUE}, title : {<<"a">>}, priority : {"undefined"},
                tags : {<<>>}, dueDate : {1}] : CreateStep(body)

(* PUT /api/todos/:id with a dueDate or with the status completed *)
DatePatches ==
  {[Patch({"dueDate"}, <<>>, "pending", "medium", <<>>, 1) EXCEPT !.dueDate = due]
     : due \in {NULL, 1}}
    \cup {Patch({"status"}, <<>>, "completed", "medium", <<>>, 1)}

SetDate == \E rawId \in RawIds, patch \in DatePatches : UpdateStep(rawId, patch)

ListTodos ==
  /\ nOps < MaxOps
  /\ \E q \in Queries : \E r \in ListResponses(DB, q) : resp' = r
  /\ nOps' = nOps + 1
  /\ UNCHANGED <<users, todos, tags, todo_tags, todo_history,
                 nextUserId, nextTodoId, nextTagId, clock,
                 refresh_tokens, token_blacklist, pending>>

----------------------------------------------------------------------------
(* Statistics (src/routes/stats.ts).  Dates are day numbers counted from  *)
(* 2025-09-01, so the dates of the module's task array are negative and   *)
(* clock, the current day, comes after all of them.                        *)

(* let todos: Todo[]: the module-level array the handlers read *)
StatsTodos ==
  {[id |-> 1, status |-> "in-progress", tags |-> {"work", "documentation"},
    dueDate |-> -62, createdAt |-> -73, completedAt |-> NULL],
   [id |-> 2, status |-> "pending", tags |-> {"learning", "typescript"},
    dueDate |-> -48, createdAt |-> -71, completedAt |-> NULL],
   [id |-> 3, status |-> "completed", tags |-> {"health", "personal"},
    dueDate |-> NULL, createdAt |-> -78, completedAt |-> -69],
   [id |-> 4, status |-> "completed", tags |-> {"work", "refactoring"},
    dueDate |-> NULL, createdAt |-> -75, completedAt |-> -70],
   [id |-> 5, status |-> "in-progress", tags |-> {"learning", "vue"},
    dueDate |-> -73, createdAt |-> -83, completedAt |-> NULL]}

CountStatus(ts, status) == Cardinality({t \in ts : t.status = status})

(* todo.status !== 'completed' && todo.dueDate && new Date(todo.dueDate) < now *)
IsOverdue(t, now) == t.status # "completed" /\ t.dueDate # NULL /\ t.dueDate < now

(* GET /api/stats (tagStats as counts per tag, its sort order left out) *)
StatsResult(now) ==
  LET allTags == UNION {t.tags : t \in StatsTodos}
  IN [op |-> "stats", status |-> 200,
      data |-> [total |-> Cardinality(StatsTodos),
                pending |-> CountStatus(StatsTodos, "pending"),
                inProgress |-> CountStatus(StatsTodos, "in-progress"),
                completed |-> CountStatus(StatsTodos, "completed"),
                overdue |-> Cardinality({t \in StatsTodos : IsOverdue(t, now)}),
                tagStats |-> [g \in allTags |->
                                Cardinality({t \in StatsTodos : g \in t.tags})]]]

GetStats ==
  /\ nOps < MaxOps
  /\ resp' = StatsResult(clock)
  /\ nOps' = nOps + 1
  /\ UNCHANGED <<users, todos, tags, todo_tags, todo_history,
                 nextUserId, nextTodoId, nextTagId, clock,
                 refresh_tokens, token_blacklist, pending>>

(* reduce((sum, todo) => sum + (completed - created), 0), in days *)
RECURSIVE SumSpans(_)
SumSpans(S) ==
  IF S = {} THEN 0
  ELSE LET t == CHOOSE y \in S : TRUE
       IN (t.completedAt - t.createdAt) + SumSpans(S \ {t})

(* Math.round(x * 100) / 100 of x = num / den, in hundredths (num >= 0, den > 0) *)
Round2(num, den) == (2 * 100 * num + den) \div (2 * den)

(* part.length > 0 ? (done / part.length) * 100 : 0, rounded, in hundredths *)
Rate(part) ==
  IF Cardinality(part) > 0
  THEN Round2(100 * CountStatus(part, "completed"), Cardinality(part))
  ELSE 0

(* GET /api/stats/completion-rate; numbers in hundredths, the average in  *)
(* hundredths of an hour                                                   *)
CompletionRateResult(now) ==
  LET weekAgo == now - 7
      monthAgo == now - 30
      completedWithTime ==
        {t \in StatsTodos : t.completedAt # NULL /\ t.createdAt # NULL}
  IN [op |-> "completionRate", status |-> 200,
      data |-> [overall |-> Rate(StatsTodos),
                thisWeek |-> Rate({t \in StatsTodos : t.createdAt >= weekAgo}),
                thisMonth |-> Rate({t \in StatsTodos : t.createdAt >= monthAgo}),
                averageCompletionTime |->
                  IF Cardinality(completedWithTime) > 0
                  THEN Round2(24 * SumSpans(completedWithTime),
                              Cardinality(completedWithTime))
                  ELSE 0]]

GetCompletionRate ==
  /\ nOps < MaxOps
  /\ resp' = CompletionRateResult(clock)
  /\ nOps' = nOps + 1
  /\ UNCHANGED <<users, todos, tags, todo_tags, todo_history,
                 nextUserId, nextTodoId, nextTagId, clock,
                 refresh_tokens, token_blacklist, pending>>

----------------------------------------------------------------------------
(* Accounts and tokens: the DB-backed handlers of /api/auth and           *)
(* DELETE /api/users/:id.  Tokens are the strings the handlers build;    *)
(* "" stands for an absent header or body field (both are falsy).         *)

Passwords == {"secret1", "short"}

(* `mock_token_${user.id}_${Date.now()}` *)
token(userId, now) == "mock_token_" \o ToString(userId) \o "_" \o ToString(now)

(* `mock_refresh_token_${user.id}_${Date.now()}` *)
refreshToken(userId, now) ==
  "mock_refresh_token_" \o ToString(userId) \o "_" \o ToString(now)

(* token.startsWith('mock_token_'), on the headers of the model *)
startsWithMockToken(tok) == \E u \in 0..9, t \in 0..9 : tok = token(u, t)

(* parseInt(token.split('_')[2], 10) *)
tokenUserId(tok) == CHOOSE u \in 0..9 : \E t \in 0..9 : tok = token(u, t)

(* The Authorization headers and refresh tokens a client may present *)
TokenUsers == 1..2
AccessTokens == {token(u, t) : u \in TokenUsers, t \in 1..MaxClock}
RefreshTokens == {refreshToken(u, t) : u \in TokenUsers, t \in 1..MaxClock}
Headers == AccessTokens \cup {"", "garbage"}

(* Seconds; Date.now() + refreshTokenExpiresIn * 1000 is the expiry *)
refreshTokenExpiresIn == 7 * 24 * 60 * 60

UserFindByEmail(d, email) == {u \in d.users : u.email = email}
UserFindById(d, id) == {u \in d.users : u.id = id}

(* The refresh tokens of the user stay behind *)
UserDelete_NoCascade(d, id) ==
  LET gone == {t.id : t \in {x \in d.todos : x.user_id = id}}
      tagsGone == {g.id : g \in {x \in d.tags : x.user_id = id}}
  IN [d EXCEPT !.users = {u \in @ : u.id # id},
               !.tags = {g \in @ : g.user_id # id},
               !.todos = {t \in @ : t.user_id # id},
               !.todo_tags = {l \in @ : l.todo_id \notin gone /\ l.tag_id \notin tagsGone},
               !.todo_history = HistoryWithout(@, gone)]

(* UserRepository.delete, with the ON DELETE CASCADE of every table that  *)
(* references users                                                        *)
UserDelete(d, id) ==
  LET gone == {t.id : t \in {x \in d.todos : x.user_id = id}}
      tagsGone == {g.id : g \in {x \in d.tags : x.user_id = id}}
  IN [d EXCEPT !.users = {u \in @ : u.id # id},
               !.refresh_tokens = {r \in @ : r.user_id # id},
               !.tags = {g \in @ : g.user_id # id},
               !.todos = {t \in @ : t.user_id # id},
               !.todo_tags = {l \in @ : l.todo_id \notin gone /\ l.tag_id \notin tagsGone},
               !.todo_history = HistoryWithout(@, gone)]

(* RefreshTokenRepository.create: token is UNIQUE, user_id references users *)
RefreshTokenCreate(d, tok, userId, expiresAt) ==
  IF (\E r \in d.refresh_tokens : r.token = tok) \/ userId \notin UserIds(d)
  THEN [ok |-> FALSE, db |-> d]
  ELSE [ok |-> TRUE,
        db |-> [d EXCEPT !.refresh_tokens =
                  @ \cup {[token |-> tok, user_id |-> userId, expires_at |-> expiresAt]}]]

RefreshTokenFind(d, tok) == {r \in d.refresh_tokens : r.token = tok}

RefreshTokenDelete(d, tok) ==
  [d EXCEPT !.refresh_tokens = {r \in @ : r.token # tok}]

RefreshTokenDeleteByUser(d, userId) ==
  [d EXCEPT !.refresh_tokens = {r \in @ : r.user_id # userId}]

(* TokenBlacklistRepository.add: insert ... onConflict('token').ignore() *)
TokenBlacklistAdd(d, tok) == [d EXCEPT !.token_blacklist = @ \cup {tok}]

isBlacklisted(d, tok) == tok \in d.token_blacklist

(* The token check that opens GET /profile, PUT /profile and             *)
(* DELETE /delete-account: 0 when the request may go on                    *)
authStatus(d, header) ==
  IF header = "" THEN 401
  ELSE IF isBlacklisted(d, header) THEN 401
  ELSE IF ~startsWithMockToken(header) THEN 401
  ELSE IF UserFindById(d, tokenUserId(header)) = {} THEN 401
  ELSE 0

AuthResp(op, status, header) == [op |-> op, status |-> status, header |-> header]

(* POST /api/auth/register *)
RegisterResult(d, email, password, confirm_password, now) ==
  LET userId == d.nextUserId
      d1 == [d EXCEPT !.users = @ \cup {[id |-> userId, email |-> email,
                                         password |-> password]},
                      !.nextUserId = @ + 1]
      made == RefreshTokenCreate(d1, refreshToken(userId, now), userId,
                                 now + refreshTokenExpiresIn * 1000)
  IN IF password # confirm_password \/ Len(password) < 6
          \/ UserFindByEmail(d, email) # {}
     THEN [db |-> d, resp |-> [op |-> "register", status |-> 400]]
     ELSE IF ~made.ok
     THEN [db |-> d1, resp |-> [op |-> "register", status |-> 500]]
     ELSE [db |-> made.db,
           resp |-> [op |-> "register", status |-> 201, token |-> token(userId, now),
                     refreshToken |-> refreshToken(userId, now)]]

Register ==
  /\ nOps < MaxOps
  /\ \E email \in Emails, password \in Passwords, confirm_password \in Passwords :
       LET r == RegisterResult(DB, email, password, confirm_password, clock)
       IN SetDB(r.db) /\ resp' = r.resp
  /\ nOps' = nOps + 1
  /\ UNCHANGED <<clock, pending>>

(* POST /api/auth/login *)
LoginResult(d, email, password, now) ==
  LET found == UserFindByEmail(d, email)
      user == CHOOSE u \in found : TRUE
      made == RefreshTokenCreate(d, refreshToken(user.id, now), user.id,
                                 now + refreshTokenExpiresIn * 1000)
  IN IF found = {} \/ user.password # password
     THEN [db |-> d, resp |-> [op |-> "login", status |-> 401]]
     ELSE IF ~made.ok
     THEN [db |-> d, resp |-> [op |-> "login", status |-> 500]]
     ELSE [db |-> made.db,
           resp |-> [op |-> "login", status |-> 200, token |-> token(user.id, now),
                     refreshToken |-> refreshToken(user.id, now)]]

Login ==
  /\ nOps < MaxOps
  /\ \E email \in Emails, password \in Passwords :
       LET r == LoginResult(DB, email, password, clock)
       IN SetDB(r.db) /\ resp' = r.resp
  /\ nOps' = nOps + 1
  /\ UNCHANGED <<clock, pending>>

(* GET /api/auth/profile *)
ProfileResult(d, header) ==
  AuthResp("profile", IF authStatus(d, header) # 0 THEN authStatus(d, header) ELSE 200,
           header)

GetProfile ==
  /\ nOps < MaxOps
  /\ \E header \in Headers : resp' = ProfileResult(DB, header)
  /\ nOps' = nOps + 1
  /\ UNCHANGED <<users, todos, tags, todo_tags, todo_history,
                 nextUserId, nextTodoId, nextTagId, clock,
                 refresh_tokens, token_blacklist, pending>>

(* PUT /api/auth/profile; name is "" when the body has no field.          *)
(* The name and avatar columns it writes are not part of the model.       *)
UpdateProfileResult(d, header, name) ==
  IF authStatus(d, header) # 0 THEN AuthResp("updateProfile", authStatus(d, header), header)
  ELSE IF name = "" THEN AuthResp("updateProfile", 400, header)
  ELSE AuthResp("updateProfile", 200, header)

UpdateProfile ==
  /\ nOps < MaxOps
  /\ \E header \in Headers, name \in {"", "n"} :
       resp' = UpdateProfileResult(DB, header, name)
  /\ nOps' = nOps + 1
  /\ UNCHANGED <<users, todos, tags, todo_tags, todo_history,
                 nextUserId, nextTodoId, nextTagId, clock,
                 refresh_tokens, token_blacklist, pending>>

(* POST /api/auth/logout: the access token of the header or of the body,  *)
(* and the refresh token of the body                                       *)
LogoutResult(d, tok, refresh) ==
  LET d1 == IF tok # "" THEN TokenBlacklistAdd(d, tok) ELSE d
      d2 == IF refresh # "" THEN RefreshTokenDelete(d1, refresh) ELSE d1
  IN IF tok = "" /\ refresh = ""
     THEN [db |-> d, resp |-> [op |-> "logout", status |-> 400]]
     ELSE [db |-> d2, resp |-> [op |-> "logout", status |-> 200]]

Logout ==
  /\ nOps < MaxOps
  /\ \E tok \in AccessTokens \cup {""}, refresh \in RefreshTokens \cup {""} :
       LET r == LogoutResult(DB, tok, refresh)
       IN SetDB(r.db) /\ resp' = r.resp
  /\ nOps' = nOps + 1
  /\ UNCHANGED <<clock, pending>>

protectedEmails == {"admin@example.com", "user@example.com"}

(* DELETE /api/auth/delete-account (no confirmText in the body) *)
DeleteAccountResult(d, header, password) ==
  LET user == CHOOSE u \in UserFindById(d, tokenUserId(header)) : TRUE
      d1 == TokenBlacklistAdd(d, header)
      d2 == RefreshTokenDeleteByUser(d1, user.id)
  IN IF authStatus(d, header) # 0
     THEN [db |-> d, resp |-> AuthResp("deleteAccount", authStatus(d, header), header)]
     ELSE IF user.password # password
     THEN [db |-> d, resp |-> AuthResp("deleteAccount", 401, header)]
     ELSE IF user.email \in protectedEmails
     THEN [db |-> d, resp |-> AuthResp("deleteAccount", 403, header)]
     ELSE [db |-> UserDelete(d2, user.id), resp |-> AuthResp("deleteAccount", 200, header)]

DeleteAccount ==
  /\ nOps < MaxOps
  /\ \E header \in Headers, password \in Passwords :
       LET r == DeleteAccountResult(DB, header, password)
       IN SetDB(r.db) /\ resp' = r.resp
  /\ nOps' = nOps + 1
  /\ UNCHANGED <<clock, pending>>

(* DELETE /api/users/:id *)
DeleteUserResult(d, rawId) ==
  LET userId == parseInt(rawId)
  IN IF userId = NaN THEN [db |-> d, resp |-> [op |-> "deleteUser", status |-> 400]]
     ELSE IF UserFindById(d, userId) = {}
     THEN [db |-> d, resp |-> [op |-> "deleteUser", status |-> 404]]
     ELSE [db |-> UserDelete(d, userId), resp |-> [op |-> "deleteUser", status |-> 200]]

DeleteUser ==
  /\ nOps < MaxOps
  /\ \E rawId \in RawIds :
       LET r == DeleteUserResult(DB, rawId)
       IN SetDB(r.db) /\ resp' = r.resp
  /\ nOps' = nOps + 1
  /\ UNCHANGED <<clock, pending>>

(* POST /api/auth/refresh-token, run without another request in between.  *)
(* presented is the refresh token of the body.                             *)
RefreshResp(status, presented, issued) ==
  [op |-> "refresh", status |-> status, presented |-> presented, refreshToken |-> issued]

RefreshResult(d, presented, now) ==
  LET found == RefreshTokenFind(d, presented)
      tokenData == CHOOSE r \in found : TRUE
      gone == RefreshTokenDelete(d, presented)
      newRefreshToken == refreshToken(tokenData.user_id, now)
      made == RefreshTokenCreate(gone, newRefreshToken, tokenData.user_id,
                                 now + refreshTokenExpiresIn * 1000)
  IN IF found = {}
     THEN [db |-> d, resp |-> RefreshResp(401, presented, "")]
     ELSE IF now > tokenData.expires_at \/ UserFindById(d, tokenData.user_id) = {}
     THEN [db |-> gone, resp |-> RefreshResp(401, presented, "")]
     ELSE IF ~made.ok
     THEN [db |-> gone, resp |-> RefreshResp(500, presented, "")]
     ELSE [db |-> made.db, resp |-> RefreshResp(200, presented, newRefreshToken)]

Refresh ==
  /\ nOps < MaxOps
  /\ \E presented \in RefreshTokens :
       LET r == RefreshResult(DB, presented, clock)
       IN SetDB(r.db) /\ resp' = r.resp
  /\ nOps' = nOps + 1
  /\ UNCHANGED <<clock, pending>>

(* GET /api/todos/:id and POST /api/tags sent with an Authorization       *)
(* header: neither handler reads the header (getCurrentUserId).           *)
GetTodoAs ==
  /\ nOps < MaxOps
  /\ \E header \in Headers, rawId \in RawIds :
       resp' = AuthResp("getTodoAs", GetTodoResult(DB, rawId).status, header)
  /\ nOps' = nOps + 1
  /\ UNCHANGED <<users, todos, tags, todo_tags, todo_history,
                 nextUserId, nextTodoId, nextTagId, clock,
                 refresh_tokens, token_blacklist, pending>>

CreateTagAs ==
  /\ nOps < MaxOps
  /\ \E header \in Headers, body \in CreateTagBodies :
       LET r == CreateTagResult(DB, body)
       IN SetDB(r.db) /\ resp' = AuthResp("createTagAs", r.resp.status, header)
  /\ nOps' = nOps + 1
  /\ UNCHANGED <<clock, pending>>

(* The account and token requests, with tasks and tags read and written   *)
(* under a token                                                           *)
NextAuth ==
  \/ Tick
  \/ Register
  \/ Login
  \/ GetProfile
  \/ UpdateProfile
  \/ Logout
  \/ Refresh
  \/ DeleteAccount
  \/ DeleteUser
  \/ GetTodoAs
  \/ CreateTagAs

SpecAuth == Init /\ [][NextAuth]_vars

(* The requests that give tasks a due date or a completion time and list  *)
(* them by one of the two                                                  *)
NextDates ==
  \/ CreateUser
  \/ CreateTodo
  \/ CreateTodoDue
  \/ SetDate
  \/ ListByDate

SpecDates == Init /\ [][NextDates]_vars

----------------------------------------------------------------------------
(* Requests served at the same time.  A handler runs until its next await *)
(* and another request may run before it resumes; pending[r] holds the    *)
(* local variables of request r between two store calls.                  *)

InFlight == {r \in Reqs : pending[r].pc \notin {"idle", "done"}}

ConcurrentBodies ==
  [hasTitle : {TRUE}, title : {<<"a">>}, priority : {"undefined", "high"},
   tags : {<<>>}, dueDate : {NULL}]

(* POST /api/todos up to the first statement of TodoRepository.create:    *)
(* the maximum order_index has been read, the insert is still to run      *)
CreateReadMax(r) ==
  /\ nOps < MaxOps
  /\ nextTodoId + Cardinality(InFlight) <= MaxTodos
  /\ pending[r].pc \in {"idle", "done"}
  /\ \E body \in ConcurrentBodies :
       pending' = [pending EXCEPT ![r] =
                     [pc |-> "insert", body |-> body,
                      orderIndex |-> NextOrderIndex(DB, getCurrentUserId)]]
  /\ nOps' = nOps + 1
  /\ UNCHANGED <<users, todos, tags, todo_tags, todo_history,
                 nextUserId, nextTodoId, nextTagId, clock,
                 refresh_tokens, token_blacklist, resp>>

(* POST /api/todos from the insert of TodoRepository.create to the answer *)
CreateInsert(r) ==
  /\ pending[r].pc = "insert"
  /\ LET body == pending[r].body
         c == TodoInsert(DB, trim(body.title), getCurrentUserId, Priority(body),
                         DueDate(body), pending[r].orderIndex)
         res == CreateTodoRest(DB, body, c)
     IN /\ SetDB(res.db)
        /\ resp' = res.resp
        /\ pending' = [pending EXCEPT ![r] = [pc |-> "done", op |-> "create",
                                              status |-> res.resp.status]]
  /\ UNCHANGED <<clock, nOps>>

ConcurrentCreate == \E r \in Reqs : CreateReadMax(r) \/ CreateInsert(r)

(* Create requests that may overlap, next to requests that run alone *)
NextConcurrentCreate ==
  \/ CreateUser
  \/ CreateTodo
  \/ DeleteTodo
  \/ ConcurrentCreate

SpecConcurrentCreate == Init /\ [][NextConcurrentCreate]_vars

(* POST /api/auth/refresh-token, one store call at a time.  A request    *)
(* that has answered keeps its answer in pending[r].                      *)
RefreshDone(status, presented, issued) ==
  [pc |-> "done", op |-> "refresh", status |-> status, presented |-> presented,
   refreshToken |-> issued]

(* RefreshTokenRepository.find and the expiry test *)
RefreshFind(r) ==
  /\ nOps < MaxOps
  /\ pending[r].pc \in {"idle", "done"}
  /\ \E presented \in RefreshTokens :
       LET found == RefreshTokenFind(DB, presented)
           tokenData == CHOOSE t \in found : TRUE
       IN IF found = {}
          THEN /\ pending' = [pending EXCEPT ![r] = RefreshDone(401, presented, "")]
               /\ UNCHANGED refresh_tokens
          ELSE IF clock > tokenData.expires_at
          THEN /\ pending' = [pending EXCEPT ![r] = RefreshDone(401, presented, "")]
               /\ refresh_tokens' = RefreshTokenDelete(DB, presented).refresh_tokens
          ELSE /\ pending' = [pending EXCEPT ![r] =
                                [pc |-> "findUser", presented |-> presented,
                                 user_id |-> tokenData.user_id]]
               /\ UNCHANGED refresh_tokens
  /\ nOps' = nOps + 1
  /\ UNCHANGED <<users, todos, tags, todo_tags, todo_history,
                 nextUserId, nextTodoId, nextTagId, clock, token_blacklist, resp>>

(* UserRepository.findById; the new tokens are named when it returns *)
RefreshFindUser(r) ==
  /\ pending[r].pc = "findUser"
  /\ IF UserFindById(DB, pending[r].user_id) = {}
     THEN /\ pending' = [pending EXCEPT ![r] = RefreshDone(401, @.presented, "")]
          /\ refresh_tokens' = RefreshTokenDelete(DB, pending[r].presented).refresh_tokens
     ELSE /\ pending' = [pending EXCEPT ![r] =
                           [pc |-> "delete", presented |-> @.presented,
                            user_id |-> @.user_id,
                            newRefreshToken |-> refreshToken(@.user_id, clock)]]
          /\ UNCHANGED refresh_tokens
  /\ UNCHANGED <<users, todos, tags, todo_tags, todo_history,
                 nextUserId, nextTodoId, nextTagId, clock, token_blacklist, resp, nOps>>

(* RefreshTokenRepository.delete of the presented token *)
RefreshDeleteOld(r) ==
  /\ pending[r].pc = "delete"
  /\ refresh_tokens' = RefreshTokenDelete(DB, pending[r].presented).refresh_tokens
  /\ pending' = [pending EXCEPT ![r] =
                   [pc |-> "create", presented |-> @.presented, user_id |-> @.user_id,
                    newRefreshToken |-> @.newRefreshToken,
                    newExpiresAt |-> clock + refreshTokenExpiresIn * 1000]]
  /\ UNCHANGED <<users, todos, tags, todo_tags, todo_history,
                 nextUserId, nextTodoId, nextTagId, clock, token_blacklist, resp, nOps>>

(* RefreshTokenRepository.create of the new token, and the answer *)
RefreshCreateNew(r) ==
  /\ pending[r].pc = "create"
  /\ LET made == RefreshTokenCreate(DB, pending[r].newRefreshToken, pending[r].user_id,
                                    pending[r].newExpiresAt)
     IN /\ refresh_tokens' = made.db.refresh_tokens
        /\ pending' = [pending EXCEPT ![r] =
                         IF made.ok
                         THEN RefreshDone(200, @.presented, @.newRefreshToken)
                         ELSE RefreshDone(500, @.presented, "")]
  /\ UNCHANGED <<users, todos, tags, todo_tags, todo_history,
                 nextUserId, nextTodoId, nextTagId, clock, token_blacklist, resp, nOps>>

(* Time passes, up to one instant after the last at which a presented    *)
(* token was issued                                                        *)
TickOn ==
  /\ clock < MaxClock + 1
  /\ clock' = clock + 1
  /\ UNCHANGED <<users, todos, tags, todo_tags, todo_history,
                 nextUserId, nextTodoId, nextTagId, nOps, resp,
                 refresh_tokens, token_blacklist, pending>>

ConcurrentRefresh ==
  \E r \in Reqs :
    RefreshFind(r) \/ RefreshFindUser(r) \/ RefreshDeleteOld(r) \/ RefreshCreateNew(r)

(* Refresh requests that may overlap, next to the requests that issue     *)
(* refresh tokens and delete users                                         *)
NextConcurrentRefresh ==
  \/ TickOn
  \/ Register
  \/ Login
  \/ DeleteUser
  \/ ConcurrentRefresh

SpecConcurrentRefresh == Init /\ [][NextConcurrentRefresh]_vars

Next ==
  \/ Tick
  \/ CreateUser
  \/ CreateTodo
  \/ GetTodo
  \/ UpdateTodo
  \/ DeleteTodo
  \/ CreateTag
  \/ UpdateTag
  \/ DeleteTag
  \/ ReorderTodos
  \/ BatchTodos
  \/ ListTodos
  \/ GetStats
  \/ GetCompletionRate

Spec == Init /\ [][Next]_vars

(* Behaviours in which the only task requests are successful creates *)
CreateTodoOk == CreateTodo /\ resp'.status = 201

NextCreate ==
  \/ Tick
  \/ CreateUser
  \/ CreateTodoOk

SpecCreate == Init /\ [][NextCreate]_vars

(* The requests that create, delete, reorder and list tasks *)
NextOrder ==
  \/ CreateUser
  \/ CreateTodo
  \/ DeleteTodo
  \/ ReorderTodos
  \/ ListTodos

SpecOrder == Init /\ [][NextOrder]_vars

(* The requests that attach tags to tasks, delete tags and read a task *)
NextTags ==
  \/ CreateUser
  \/ CreateTodo
  \/ UpdateTodo
  \/ DeleteTag
  \/ GetTodo

SpecTags == Init /\ [][NextTags]_vars

(* The requests that create or rename tags, with two registered users *)
NextTagNames ==
  \/ CreateUsers
  \/ CreateTodo
  \/ UpdateTodo
  \/ CreateTag
  \/ UpdateTag

SpecTagNames == Init /\ [][NextTagNames]_vars

(* Batch delete requests that name at least one numeric id *)
DeleteBodies ==
  {[action |-> "delete", isArray |-> TRUE, ids |-> l,
    data |-> [kind |-> "none", status |-> "pending", priority |-> "medium"]]
     : l \in {m \in IdLists : numericIds(m) # <<>>}}

BatchDeleteTodos == \E body \in DeleteBodies : BatchStep(body)

(* The requests that create tasks and delete them in batches *)
NextBatchDelete ==
  \/ CreateUser
  \/ CreateTodo
  \/ BatchDeleteTodos

SpecBatchDelete == Init /\ [][NextBatchDelete]_vars
----------------------------------------------------------------------------
(* The store after a step, and what the properties read from the store *)

DBNext == [users |-> users', todos |-> todos', tags |-> tags',
           todo_tags |-> todo_tags', todo_history |-> todo_history',
           nextUserId |-> nextUserId', nextTodoId |-> nextTodoId',
           nextTagId |-> nextTagId',
           refresh_tokens |-> refresh_tokens', token_blacklist |-> token_blacklist']

OwnerTodos(d, userId) == {t \in d.todos : t.user_id = userId}

OrderIndexes(d) == {<<t.id, t.order_index>> : t \in d.todos}

CompletedAtOf(d, id) == {t.completed_at : t \in TodoFindById(d, id)}

CompletedPatch == Patch({"status"}, <<>>, "completed", "medium", <<>>, 1)

AwayPatches ==
  {Patch({"status"}, <<>>, st, "medium", <<>>, 1) : st \in {"pending", "in-progress"}}

----------------------------------------------------------------------------
(* C1: in every reachable state a task's completed_at is non-null if and  *)
(* only if its status is 'completed'.                                      *)
C1_CompletedAtIffCompleted ==
  \A t \in todos : (t.completed_at # NULL) <=> (t.status = "completed")

(* C2: after any reorder request that completes, the order indices of the *)
(* owner's tasks are pairwise distinct and are exactly 1..K, K the number *)
(* of the owner's tasks.                                                   *)
C2_ReorderDense ==
  (resp.op = "reorder" /\ resp.status = 200) =>
    LET mine == OwnerTodos(DB, getCurrentUserId)
    IN /\ {t.order_index : t \in mine} = 1..Cardinality(mine)
       /\ \A t, u \in mine : t.order_index = u.order_index => t = u

(* C4: a reorder request that is answered with an error leaves every      *)
(* task's order index as it was before the request.                        *)
C4_ReorderAtomic ==
  [][(nOps' = nOps + 1 /\ resp'.op = "reorder" /\ resp'.status # 200)
       => OrderIndexes(DBNext) = OrderIndexes(DB)]_vars

(* C6: updateTask(id, {status: 'completed'}) on a task that is already    *)
(* completed leaves its completedAt as it was.                             *)
C6_CompletionIdempotent ==
  [][\A rawId \in RawIds :
       (/\ UpdateStep(rawId, CompletedPatch)
        /\ \E t \in TodoFindById(DB, parseInt(rawId)) :
             t.status = "completed" /\ t.completed_at # NULL)
         => CompletedAtOf(DBNext, parseInt(rawId)) = CompletedAtOf(DB, parseInt(rawId))]_vars

(* C7: after a successful updateTask that sets status 'pending' or        *)
(* 'in-progress' on a task whose completedAt is non-null, getTask returns *)
(* the task without a completedAt.                                         *)
C7_AwayClearsCompletedAt ==
  [][\A rawId \in RawIds, patch \in AwayPatches :
       (/\ UpdateStep(rawId, patch)
        /\ resp'.status = 200
        /\ CompletedAtOf(DB, parseInt(rawId)) # {NULL})
         => LET got == GetTodoResult(DBNext, rawId)
            IN got.status = 200 /\ got.data.completedAt = NULL]_vars
(* C3: from an owner without tasks, after N successful creates and no     *)
(* other request the owner's order indices are exactly 1..N, without      *)
(* duplicates (each create assigns the maximum order so far plus one).    *)
C3_CreateOrderDense ==
  LET mine == OwnerTodos(DB, getCurrentUserId)
  IN /\ Cardinality(mine) = nOps
     /\ {t.order_index : t \in mine} = 1..nOps
     /\ \A t, u \in mine : t.order_index = u.order_index => t = u

C3_Witness ==
  /\ resp.op = "create" /\ resp.status = 201
  /\ nOps = 2
  /\ {t.order_index : t \in OwnerTodos(DB, getCurrentUserId)} = {1, 2}

OrderAscQuery ==
  [status |-> {}, priority |-> {}, tags |-> <<>>, keyword |-> <<>>,
   sortField |-> "order", sortOrder |-> "asc", page |-> 1, size |-> 10]

IsPermutationOf(ids, S) ==
  Range(ids) = S /\ Len(ids) = Cardinality(S)

(* C5: after reorder(P), P a permutation of the owner's task ids,         *)
(* listTasks sorted by order ascending (all tasks on one page) returns    *)
(* the tasks in exactly the sequence P.                                    *)
C5_ReorderThenList ==
  (/\ resp.op = "reorder" /\ resp.status = 200
   /\ IsPermutationOf(resp.ids, {t.id : t \in OwnerTodos(DB, getCurrentUserId)}))
    => \A r \in ListResponses(DB, OrderAscQuery) :
         r.status = 200 /\ r.data = resp.ids

C5_Witness ==
  /\ resp.op = "reorder" /\ resp.status = 200
  /\ resp.ids = <<2, 1>>
  /\ {t.id : t \in OwnerTodos(DB, getCurrentUserId)} = {1, 2}
  /\ \E r \in ListResponses(DB, OrderAscQuery) : r.status = 200 /\ r.data = <<2, 1>>
Distinct(seq) == \A i, j \in 1..Len(seq) : seq[i] = seq[j] => i = j

RawIdOf(id) == CHOOSE rawId \in RawIds : parseInt(rawId) = id

(* getTask right after a successful createTask with distinct tag names T  *)
(* returns the tag names T                                                 *)
CreateTagsRoundTrip ==
  (resp.op = "create" /\ resp.status = 201 /\ Distinct(resp.tags)) =>
    LET got == GetTodoResult(DB, RawIdOf(resp.id))
    IN got.status = 200 /\ got.data.tags = Range(resp.tags)

(* a successful deleteTag leaves every task in place and takes exactly    *)
(* the deleted name out of its tag list                                    *)
DeleteTagKeepsTasks ==
  \A rawId \in RawIds :
    (DeleteTagStep(rawId) /\ resp'.status = 200) =>
      LET name == (CHOOSE g \in TagFindById(DB, parseInt(rawId)) : TRUE).name
      IN \A rawTodo \in RawIds :
           LET before == GetTodoResult(DB, rawTodo)
               after == GetTodoResult(DBNext, rawTodo)
           IN before.status = 200 =>
                after.status = 200 /\ after.data.tags = before.data.tags \ {name}

(* C10: createTask with distinct tag names T then getTask returns exactly *)
(* the names T; after deleteTag of one of them getTask still finds the    *)
(* task and its tag list is T minus the deleted name.                      *)
C10_TagRoundTrip == [][CreateTagsRoundTrip' /\ DeleteTagKeepsTasks]_vars

C10_Witness ==
  /\ resp.op = "deleteTag" /\ resp.status = 200
  /\ \E rawTodo \in RawIds :
       LET got == GetTodoResult(DB, rawTodo)
       IN got.status = 200 /\ got.data.tags = {"y"}
  /\ \A g \in tags : g.name # "x"
(* The tasks of the current user that query q asks for *)
Matching(d, q) ==
  {t \in d.todos : MatchesFilters(t, getCurrentUserId, q) /\ MatchesTags(d, t, q)}

(* C8: the total of a list response is the number of tasks matching the   *)
(* filter, the tag filter included, whatever the page (stated for the     *)
(* queries that at least one task matches).                                *)
C8_TotalIsMatchCount ==
  \A q \in Queries :
    Matching(DB, q) # {} =>
      \A r \in ListResponses(DB, q) :
        r.status = 200 /\ r.total = Cardinality(Matching(DB, q))

(* C9: a list filtered by several tag names returns the tasks carrying at *)
(* least one of them, a task carrying several of them once (stated for    *)
(* the first page of size 10 when some task carries two requested tags).  *)
C9_TagFilterIsUnion ==
  \A q \in Queries :
    (/\ q.tags # <<>> /\ q.page = 1 /\ q.size = 10
     /\ \E t \in Matching(DB, q) :
          Cardinality({g \in TodoGetTags(DB, t.id) : g.name \in Range(q.tags)}) > 1) =>
      \A r \in ListResponses(DB, q) :
        /\ r.status = 200
        /\ Distinct(r.data)
        /\ Range(r.data) = {t.id : t \in Matching(DB, q)}
HistoryOf(d, S) == HistoryWithout(d.todo_history, TodoIds(d) \ S)

(* C11: a batch delete over a non-empty id set removes every existing     *)
(* task of the set, answers affected = the number of ids of the set that  *)
(* existed, raises no error for ids that do not exist, and leaves the     *)
(* tasks outside the set (rows, links, history) unchanged.                *)
C11_BatchDelete ==
  [][(/\ nOps' = nOps + 1
      /\ resp'.op = "batch" /\ resp'.action = "delete" /\ resp'.ids # <<>>) =>
       LET S == Range(resp'.ids)
           out == TodoIds(DB) \ S
       IN /\ resp'.status = 200
          /\ resp'.affected = Cardinality(TodoIds(DB) \cap S)
          /\ DBNext.todos = {t \in todos : t.id \in out}
          /\ DBNext.todo_tags = {l \in todo_tags : l.todo_id \in out}
          /\ DBNext.todo_history = HistoryOf(DB, out)]_vars

C11_Witness ==
  /\ resp.op = "batch" /\ resp.status = 200 /\ resp.action = "delete"
  /\ resp.ids = <<1, 9>> /\ resp.affected = 1
  /\ TodoIds(DB) = {2}
(* Create requests whose title is missing, empty or only whitespace *)
UntitledBodies ==
  {body \in CreateBodies :
     /\ ~body.hasTitle => body.title = <<>>
     /\ (~body.hasTitle \/ body.title \in {<<>>, <<" ">>})}

(* C12: createTask with an empty, whitespace-only or missing title is     *)
(* rejected as a validation error and leaves the store unchanged: no task *)
(* row, no tag row, no task-tag link and no history record is written.    *)
C12_UntitledCreateRejected ==
  [][(nOps' = nOps + 1 /\ resp'.op = "create") =>
       \A body \in UntitledBodies :
         CreateStep(body) => resp'.status = 400 /\ DBNext = DB]_vars

C12_Witness ==
  /\ resp.op = "create" /\ resp.status = 400
  /\ todos # {} /\ tags # {} /\ todo_tags # {}
(* C13: in every reachable state every task-tag link and every history    *)
(* record refers to a task that still exists.                              *)
C13_NoOrphanRows ==
  /\ \A l \in todo_tags : l.todo_id \in TodoIds(DB)
  /\ \A r \in DOMAIN todo_history : r.todo_id \in TodoIds(DB)

(* A task was deleted while another one keeps its link and its history *)
C13_Witness ==
  /\ resp.status = 200 /\ resp.op \in {"delete", "batch"}
  /\ Cardinality(TodoIds(DB)) < nextTodoId - 1
  /\ todo_tags # {}
  /\ DOMAIN todo_history # {}
(* Patches of PUT /api/todos/:id that carry a tag list *)
TagPatches == {patch \in UpdatePatches : "tags" \in patch.keys}

(* C15: when the tag replacement step of updateTask fails, the task's tag *)
(* links, the task's other fields and the owner's set of tags are exactly *)
(* as they were before the call.                                           *)
C15_FailedTagReplacementNoChange ==
  [][(nOps' = nOps + 1 /\ resp'.op = "update" /\ resp'.status = 500) =>
       \A rawId \in RawIds, patch \in TagPatches :
         UpdateStep(rawId, patch) =>
           /\ DBNext.todo_tags = todo_tags
           /\ DBNext.todos = todos
           /\ {g \in DBNext.tags : g.user_id = getCurrentUserId}
                = {g \in tags : g.user_id = getCurrentUserId}]_vars
(* C16: every validation failure of the task mutation layer (empty title  *)
(* on create or update, empty id list, unknown batch action, non-numeric  *)
(* id) is reported without any read or write of the store having been     *)
(* performed for the request.                                              *)
C16_ValidationBeforeStore ==
  (resp.status = 400 /\ resp.op \in {"create", "update", "delete", "batch", "reorder"})
    => ~resp.store
(* C17: after any sequence of createTask, updateTask, deleteTask and      *)
(* batch operations getStats returns total = the number of the owner's    *)
(* tasks in the store and pending/inProgress/completed = the number of    *)
(* those tasks in each status.                                             *)
C17_StatsFollowStore ==
  [][GetStats =>
       LET mine == OwnerTodos(DB, getCurrentUserId)
           data == resp'.data
       IN /\ data.total = Cardinality(mine)
          /\ data.pending = CountStatus(mine, "pending")
          /\ data.inProgress = CountStatus(mine, "in-progress")
          /\ data.completed = CountStatus(mine, "completed")]_vars

(* C18: getStats().overdue is the number of the owner's tasks whose       *)
(* status is not 'completed' and whose due date is present and strictly   *)
(* earlier than now.                                                       *)
C18_OverdueCount ==
  [][GetStats =>
       resp'.data.overdue
         = Cardinality({t \in OwnerTodos(DB, getCurrentUserId) :
                          /\ t.status # "completed"
                          /\ t.due_date # NULL /\ t.due_date < clock})]_vars

(* C19: getCompletionRate never divides by zero: for an owner without     *)
(* tasks it returns overall = 0, thisWeek = 0, thisMonth = 0 and          *)
(* averageCompletionTime = 0.                                              *)
C19_CompletionRateZero ==
  [][(GetCompletionRate /\ OwnerTodos(DB, getCurrentUserId) = {}) =>
       LET data == resp'.data
       IN /\ data.overall = 0 /\ data.thisWeek = 0 /\ data.thisMonth = 0
          /\ data.averageCompletionTime = 0]_vars

(* C20: in every reachable state no two tags of the same owner have the   *)
(* same name, while the store accepts a name for an owner who does not    *)
(* hold it even when another owner holds it; createTag, updateTag and the *)
(* auto-creation of tags during task create and update preserve this.     *)
C20_TagNameUniquePerOwner ==
  /\ \A g, h \in tags : (g.name = h.name /\ g.user_id = h.user_id) => g = h
  /\ \A u \in UserIds(DB), name \in TagNames :
       TagFindByNameAndUserId(DB, name, u) = {} => TagCreate(DB, name, u).ok

(* The current user holds the tags x and y, one of them renamed or made   *)
(* by createTag, and a second user is registered                           *)
C20_Witness ==
  /\ resp.op \in {"createTag", "updateTag"} /\ resp.status \in {200, 201}
  /\ {g.name : g \in {h \in tags : h.user_id = getCurrentUserId}} = {"x", "y"}
  /\ Cardinality(UserIds(DB)) = 2
(* C21: in every reachable state every stored refresh token belongs to a  *)
(* user that still exists: deleting a user (through delete-account or     *)
(* through the users delete route) leaves no refresh token of that user.  *)
C21_RefreshTokenHasUser ==
  \A r \in refresh_tokens : r.user_id \in UserIds(DB)

(* The users delete route has just deleted the only user, registered by   *)
(* the one request before it, whose refresh token was in the store         *)
C21_Witness ==
  /\ resp.op = "deleteUser" /\ resp.status = 200
  /\ nOps = 2 /\ nextUserId = 2 /\ token_blacklist = {}
  /\ refresh_tokens = {}
(* C22: refresh-token rotation: after a successful refresh with token R,  *)
(* R is no longer stored and exactly one new refresh token for the same   *)
(* user has been stored; a later refresh request presenting R is rejected *)
(* as an invalid refresh token.                                            *)
C22_RefreshRotation ==
  [][(nOps' = nOps + 1 /\ resp'.op = "refresh" /\ resp'.status = 200) =>
       LET R == resp'.presented
           owner == (CHOOSE r \in RefreshTokenFind(DB, R) : TRUE).user_id
           new == refresh_tokens' \ refresh_tokens
       IN /\ RefreshTokenFind(DBNext, R) = {}
          /\ Cardinality(new) = 1
          /\ \A r \in new : r.user_id = owner
          /\ RefreshResult(DBNext, R, clock').resp.status = 401]_vars
(* C23: blacklist gating: once logout has added an access token to the    *)
(* blacklist, every later request that presents that token as its         *)
(* authentication (profile read, profile update, delete-account, and the  *)
(* task and tag operations) is rejected: none is answered with success.   *)
C23_BlacklistGates ==
  [][(/\ nOps' = nOps + 1
      /\ resp'.op \in {"profile", "updateProfile", "deleteAccount",
                       "getTodoAs", "createTagAs"}
      /\ isBlacklisted(DB, resp'.header)) =>
       resp'.status \notin {200, 201}]_vars
(* C24: updateTask with a tags patch fully replaces the tag set: the call *)
(* with tag names T on an existing task succeeds and afterwards the       *)
(* task's linked tag names are exactly the set T, including when T is     *)
(* empty and when T lists a name more than once.                           *)
C24_TagPatchReplaces ==
  [][\A rawId \in RawIds, patch \in TagPatches :
       (UpdateStep(rawId, patch) /\ TodoFindById(DB, parseInt(rawId)) # {}) =>
          /\ resp'.status = 200
          /\ {g.name : g \in TodoGetTags(DBNext, parseInt(rawId))} = Range(patch.tags)]_vars
(* Batch update requests of the given data kind over a non-empty list of  *)
(* distinct numeric ids                                                    *)
UpdateBodies(kind) ==
  {body \in BatchBodies :
     /\ body.action = "update" /\ body.isArray /\ body.data.kind = kind
     /\ body.ids # <<>>
     /\ \A i \in 1..Len(body.ids) : parseInt(body.ids[i]) # NaN
     /\ Distinct(body.ids)}

(* C25: a status-only batch update over an id set applies the status to   *)
(* every existing task in the set, returns affected = the number of       *)
(* existing tasks in the set, writes exactly one batch-tagged history     *)
(* record per affected task and none for ids that do not exist, and       *)
(* succeeds even when the set contains ids that do not exist.              *)
C25_BatchStatusUpdate ==
  [][\A body \in UpdateBodies("status") :
       BatchStep(body) =>
         LET S == Range(numericIds(body.ids))
             hit == TodoIds(DB) \cap S
             rec(id) == [todo_id |-> id, action_type |-> "update_status", batch |-> TRUE]
         IN /\ resp'.status = 200
            /\ resp'.affected = Cardinality(hit)
            /\ \A t \in DBNext.todos : t.id \in hit => t.status = body.data.status
            /\ \A id \in S :
                 CopiesIn(rec(id), todo_history')
                   = CopiesIn(rec(id), todo_history) + (IF id \in hit THEN 1 ELSE 0)]_vars
(* C26: a batch update whose patch touches more than only status (status  *)
(* together with priority) is applied per task, so that afterwards every  *)
(* existing task in the id set carries every field value of the patch.    *)
C26_BatchPatchAllFields ==
  [][\A body \in UpdateBodies("statusAndPriority") :
       BatchStep(body) =>
         \A t \in DBNext.todos :
           t.id \in Range(numericIds(body.ids)) =>
             t.status = body.data.status /\ t.priority = body.data.priority]_vars
(* The tasks listed in data that have no value in the column *)
NullAt(data, col, i) ==
  (CHOOSE t \in todos : t.id = data[i])[col] = NULL

(* C27: null sort keys: in listTasks sorted ascending by completedAt,     *)
(* tasks without a completion timestamp come before all tasks that have   *)
(* one; sorted ascending by dueDate, tasks without a due date come after  *)
(* all tasks that have one (and the reverse placements for descending).   *)
C27_NullSortKeys ==
  [][(nOps' = nOps + 1 /\ resp'.op = "list" /\ resp'.status = 200) =>
       \A q \in NullKeyQueries :
         resp' \in ListResponses(DB, q) =>
           LET data == resp'.data
               col == IF q.sortField = "dueDate" THEN "due_date" ELSE "completed_at"
               nullsFirst == (q.sortField = "completedAt") = (q.sortOrder = "asc")
           IN \A i, j \in 1..Len(data) :
                (NullAt(data, col, i) /\ ~NullAt(data, col, j)) =>
                  IF nullsFirst THEN i < j ELSE j < i]_vars
(* C28: createTask is all-or-nothing: if any step after inserting the     *)
(* task row fails (resolving or creating tags, linking tags, writing the  *)
(* 'create' history record) and the request is answered with an error,    *)
(* then no task row from that request remains in the store.                *)
C28_CreateAllOrNothing ==
  [][(nOps' = nOps + 1 /\ resp'.op = "create" /\ resp'.status # 201) =>
       DBNext.todos = todos]_vars
(* C29: concurrent creates: when two createTask requests for the same     *)
(* owner are interleaved at their await points (read of the maximum order *)
(* index, insert of the row), the two new tasks still receive distinct    *)
(* order indices.                                                          *)
C29_ConcurrentCreateDistinctOrder ==
  \A t, u \in todos :
    (t.user_id = u.user_id /\ t.order_index = u.order_index) => t = u
(* C30: a refresh token is redeemed at most once under interleaving: when *)
(* two refresh requests presenting the same refresh token R are           *)
(* interleaved at their await points (lookup, delete, create), at most    *)
(* one of them is answered with a new token pair (a refresh token other    *)
(* than R).                                                                *)
C30_RefreshRedeemedOnce ==
  \A r1, r2 \in Reqs :
    (/\ pending[r1].pc = "done" /\ pending[r2].pc = "done"
     /\ pending[r1].op = "refresh" /\ pending[r2].op = "refresh"
     /\ pending[r1].status = 200 /\ pending[r2].status = 200
     /\ pending[r1].presented = pending[r2].presented
     /\ pending[r1].refreshToken # pending[r1].presented
     /\ pending[r2].refreshToken # pending[r2].presented) => r1 = r2
====
